---- MODULE Spec2Model ----
(***************************************************************************)
(* Timestamp-targeted frame extraction of video-capture.                   *)
(*                                                                         *)
(* Two pipelines are modelled, each as the sequence of steps of its        *)
(* function:                                                               *)
(*   "file": video_processor::extract_frame (src/src/video_processor.rs),  *)
(*           called directly with a path, or through                       *)
(*           extract_frame_from_memory by the export extractVideoFrame     *)
(*           (src/src/wasm_interface.rs);                                  *)
(*   "mem" : extract_frame of src/src/lib.rs, called by the exports        *)
(*           get_video_frame and get_video_frame_with_options.             *)
(* The media toolkit (container, decoder, scaler), the file system and the *)
(* clock are the environment: each of their calls returns any outcome its  *)
(* signature allows, chosen when the call is made.                         *)
(***************************************************************************)
EXTENDS Integers, Sequences, FiniteSets, TLC

(***************************************************************************)
(* Bounds of the model.                                                    *)
(***************************************************************************)
MaxPackets == 2    \* packets the container yields in one call
MaxBurst == 1      \* frames the decoder yields per packet, and per drain
MaxPts == 1        \* frame timestamps are drawn from 0..MaxPts
MaxTime == 1       \* time_sec is drawn from -MaxTime..MaxTime, in 1/TimeScale s
MaxFrameDim == 1   \* widths and heights 1..MaxFrameDim in the pipeline runs
MaxFramePad == 0   \* row padding 0..MaxFramePad in the pipeline runs
MaxDim == 2        \* widths and heights 1..MaxDim in the conversion runs
MaxPad == 1        \* row padding 0..MaxPad in the conversion runs
MaxThreads == 2    \* threads that call extract_frame_from_memory at once
MaxErrno == 80     \* ffmpeg_next::Error::Other carries an errno in 1..MaxErrno
MaxTick == 20      \* time_sec is drawn from -MaxTick..MaxTick in the target_ts runs
TsBits == 4        \* the width of i64, scaled down: target_ts has TsBits bits

\* time_sec is a multiple of 1/TimeScale seconds
TimeScale == 1 + 1
\* the time bases numerator/denominator of the streams
TimeBases == {<<1, 1>>, <<1, 2>>}
\* the stream indices of a container
StreamIds == {0, 1}
\* the clock readings (milliseconds) that name temporary files
Millis == {0}
\* the clock readings of overlapping calls
ClockTicks == {0, 1}
\* the raw u8 format values a host passes: the four formats and one other value
RawFormats == 0..4
\* the raw u8 scaling values a host passes
RawScalings == {0, 1}
\* the raw <<format, scaling, width, height>> arguments of the pipeline runs:
\* the defaults, GRAY8 bicubic at a requested size, and an unknown format with
\* a requested width only (the conversion runs take all of RawFormats and
\* RawScalings and every size up to MaxDim)
PipelineRequests == {<<0, 0, 0, 0>>, <<3, 1, 1, 1>>, <<4, 1, 1, 0>>}

(***************************************************************************)
(* VideoErrorCode (error.rs) and its numeric codes.                        *)
(***************************************************************************)
Unknown == 0
InitFailed == 1
NoVideoStream == 2
DecoderFailed == 3
FrameNotFound == 4
InvalidInput == 5
SeekFailed == 6
FFmpegError == 7

VideoErrorCode == {"Unknown", "InitFailed", "NoVideoStream", "DecoderFailed",
                   "FrameNotFound", "InvalidInput", "SeekFailed", "FFmpegError"}

\* `code as u32`
get_code(kind) ==
    CASE kind = "Unknown" -> Unknown
      [] kind = "InitFailed" -> InitFailed
      [] kind = "NoVideoStream" -> NoVideoStream
      [] kind = "DecoderFailed" -> DecoderFailed
      [] kind = "FrameNotFound" -> FrameNotFound
      [] kind = "InvalidInput" -> InvalidInput
      [] kind = "SeekFailed" -> SeekFailed
      [] kind = "FFmpegError" -> FFmpegError

(***************************************************************************)
(* Results.  A Result<Vec<u8>, E> is a record; tag "none" is "not yet      *)
(* returned".  custom = <<>> models None, <<m>> models Some(m).            *)
(***************************************************************************)
NoRes == [tag |-> "none", kind |-> "", msg |-> "", buf |-> <<>>]
Ok(buf) == [tag |-> "ok", kind |-> "", msg |-> "", buf |-> buf]

\* VideoError::new: the message defaults to the Debug name of the code
VideoErrorNew(code, custom) ==
    [tag |-> "err", kind |-> code,
     msg |-> IF custom = <<>> THEN code ELSE custom[1], buf |-> <<>>]

\* lib.rs: `?` on an ffmpeg_next::Error wraps it in FrameExtractError::FFmpegError
FromFFmpeg(what) ==
    [tag |-> "err", kind |-> "FFmpegError", msg |-> what, buf |-> <<>>]

\* the values of ffmpeg_next::Error: the variants without a field, and
\* Other { errno } for the errno values 1..MaxErrno
ErrorVariants == {"Bug", "Bug2", "Unknown", "Experimental", "BufferTooSmall", "Eof",
                  "Exit", "External", "InvalidData", "PatchWelcome", "InputChanged",
                  "OutputChanged", "BsfNotFound", "DecoderNotFound",
                  "DemuxerNotFound", "EncoderNotFound", "OptionNotFound",
                  "MuxerNotFound", "FilterNotFound", "ProtocolNotFound",
                  "StreamNotFound", "HttpBadRequest", "HttpUnauthorized",
                  "HttpForbidden", "HttpNotFound", "HttpOther4xx", "HttpServerError"}

BackendErrors ==
    [variant : ErrorVariants, errno : {0}] \cup [variant : {"Other"}, errno : 1..MaxErrno]

\* `{}` of an ffmpeg_next::Error: the backend's own text for that error
Display(error) == [text_of |-> error]

\* format!("FFmpeg错误: {}", error): the pieces of the formatted string, the
\* fixed prefix followed by the text of the error
FormatFFmpegError(error) == <<[literal |-> "FFmpeg error: "], Display(error)>>

\* a faulty translation: the default arm forgets the backend's text
fromWithoutText(error) ==
    CASE error.variant = "StreamNotFound" -> VideoErrorNew("NoVideoStream", <<>>)
      [] error.variant = "DecoderNotFound" -> VideoErrorNew("DecoderFailed", <<>>)
      [] error.variant = "InvalidData" -> VideoErrorNew("InvalidInput", <<>>)
      [] OTHER -> VideoErrorNew("FFmpegError", <<<<[literal |-> "FFmpeg error: "]>>>>)

\* impl From<ffmpeg_next::Error> for VideoError
from(error) ==
    CASE error.variant = "StreamNotFound" -> VideoErrorNew("NoVideoStream", <<>>)
      [] error.variant = "DecoderNotFound" -> VideoErrorNew("DecoderFailed", <<>>)
      [] error.variant = "InvalidData" -> VideoErrorNew("InvalidInput", <<>>)
      [] OTHER -> VideoErrorNew("FFmpegError", <<FormatFFmpegError(error)>>)

\* lib.rs: FrameExtractError::FrameNotFound and its Display text
LibFrameNotFound ==
    [tag |-> "err", kind |-> "FrameNotFound",
     msg |-> "Frame not found at specified time", buf |-> <<>>]

(***************************************************************************)
(* Requests.                                                               *)
(***************************************************************************)
Entries == {"extract_frame", "extractVideoFrame",
            "get_video_frame", "get_video_frame_with_options"}

Pipeline(e) ==
    IF e \in {"get_video_frame", "get_video_frame_with_options"} THEN "mem" ELSE "file"

\* the two Once statics that guard ffmpeg_next::init(): INIT of
\* ffmpeg_init::initialize and INIT of lib.rs init
Onces == {"initialize", "init"}

\* the Once an entry point's pipeline goes through
OnceOf(e) == IF Pipeline(e) = "mem" THEN "init" ELSE "initialize"

\* what the caller hands over: a path to no file, no bytes at all, or some bytes
SrcKinds(e) ==
    IF e = "extract_frame" THEN {"missing", "empty", "data"} ELSE {"empty", "data"}

Times == (0 - MaxTime)..MaxTime

\* FrameExtractOptions; width/height 0 stand for None
DefaultOptions ==
    [pixel_format |-> "RGB24", scaling_method |-> "Bilinear", width |-> 0, height |-> 0]

\* get_video_frame_with_options: the option parsing of the raw arguments
ParsePixelFormat(format) ==
    CASE format = 0 -> "RGB24"
      [] format = 1 -> "RGBA"
      [] format = 2 -> "BGR24"
      [] format = 3 -> "GRAY8"
      [] OTHER -> "RGB24"

ParseScalingMethod(scaling) ==
    CASE scaling = 0 -> "Bilinear"
      [] scaling = 1 -> "Bicubic"
      [] scaling = 2 -> "AreaBased"
      [] scaling = 3 -> "Fast"
      [] OTHER -> "Bilinear"

ParseOptions(format, scaling, width, height) ==
    [pixel_format |-> ParsePixelFormat(format),
     scaling_method |-> ParseScalingMethod(scaling),
     width |-> width, height |-> height]

to_ffmpeg_scaling_flag(method) ==
    CASE method = "Bilinear" -> "BILINEAR"
      [] method = "Bicubic" -> "BICUBIC"
      [] method = "AreaBased" -> "AREA"
      [] method = "Fast" -> "FAST_BILINEAR"

\* process_frame (lib.rs): bytes per pixel of the requested format
bytes_per_pixel(fmt) ==
    CASE fmt \in {"RGB24", "BGR24"} -> 3
      [] fmt = "RGBA" -> 4
      [] fmt = "GRAY8" -> 1

\* a faulty calculate_dimensions: bicubic scaling keeps the native size
calculate_dimensions_by_method(o, orig_width, orig_height) ==
    IF o.scaling_method = "Bicubic" THEN <<orig_width, orig_height>>
    ELSE <<IF o.width = 0 THEN orig_width ELSE o.width,
           IF o.height = 0 THEN orig_height ELSE o.height>>

\* calculate_dimensions (lib.rs): options.width.unwrap_or(orig_width)
calculate_dimensions(o, orig_width, orig_height) ==
    <<IF o.width = 0 THEN orig_width ELSE o.width,
      IF o.height = 0 THEN orig_height ELSE o.height>>

(***************************************************************************)
(* Timestamps.                                                             *)
(***************************************************************************)
\* `as i64` of a quotient: truncation toward zero
\* a faulty conversion: the quotient is rounded down
TruncDivFloor(a, b) == a \div b

TruncDiv(a, b) == IF a >= 0 THEN a \div b ELSE 0 - ((0 - a) \div b)

\* the range of i64
I64Max == 2 ^ (TsBits - 1) - 1
I64Min == 0 - 2 ^ (TsBits - 1)

\* `as i64` of a float that is out of the range of i64: the cast saturates
AsI64(x) == IF x > I64Max THEN I64Max ELSE IF x < I64Min THEN I64Min ELSE x

\* (time_sec * denominator / numerator) as i64, time_sec = t / TimeScale
TargetTs(t, timeBase) == AsI64(TruncDiv(t * timeBase[2], TimeScale * timeBase[1]))

\* the times and the time bases of the target_ts runs
TickTimes == (0 - MaxTick)..MaxTick
TickTimeBases == {<<1, 1>>, <<1, 2>>, <<2, 3>>, <<3, 2>>}

\* a decoded frame: timestamp() is None when hasPts is FALSE
Frames == {[hasPts |-> FALSE, pts |-> 0]} \cup {[hasPts |-> TRUE, pts |-> p] : p \in 0..MaxPts}

\* a faulty acceptance test: a frame without a timestamp is passed over
AcceptsDefinedOnly(frame, target_ts) == frame.hasPts /\ frame.pts >= target_ts

\* the acceptance test of both decode loops
Accepts(frame, target_ts) == (~frame.hasPts) \/ frame.pts >= target_ts

(***************************************************************************)
(* Conversion and packing.                                                 *)
(***************************************************************************)
FrameDims == 1..MaxFrameDim
FramePads == 0..MaxFramePad
Dims == 1..MaxDim
Pads == 0..MaxPad
NoScaler == [built |-> FALSE, srcW |-> 0, srcH |-> 0,
             dstFmt |-> "", dstW |-> 0, dstH |-> 0, flag |-> ""]

\* scaling::Context::get: a converter from srcW x srcH to dstFmt at dstW x dstH
ScalerGet(srcW, srcH, dstFmt, dstW, dstH, flag) ==
    [built |-> TRUE, srcW |-> srcW, srcH |-> srcH,
     dstFmt |-> dstFmt, dstW |-> dstW, dstH |-> dstH, flag |-> flag]

\* scaler.run: plane 0 of the converted frame.  Byte k of the plane carries the
\* tag k, so a packed buffer shows which plane offsets it was copied from; the
\* last pad bytes of every row are alignment padding.
ScalerRun(sc, pad) ==
    [width |-> sc.dstW, height |-> sc.dstH,
     stride |-> sc.dstW * bytes_per_pixel(sc.dstFmt) + pad,
     bpp |-> bytes_per_pixel(sc.dstFmt)]

PlaneData(frame) == [k \in 1..(frame.stride * frame.height) |-> k]

\* a faulty row loop: the rows are taken back to back, as if stride = line_size
PackRowsDense(data, stride, line_size, height, i) ==
    SubSeq(data, i * line_size + 1, height * line_size)

\* the row loop of process_frame: rows i..height-1, each data[line_start..line_end]
RECURSIVE PackRows(_, _, _, _, _)
PackRows(data, stride, line_size, height, i) ==
    IF i >= height THEN <<>>
    ELSE SubSeq(data, i * stride + 1, i * stride + line_size)
             \o PackRows(data, stride, line_size, height, i + 1)

\* video_processor.rs process_frame: three bytes per pixel of rgb_frame.width()
PackFile(frame) ==
    PackRows(PlaneData(frame), frame.stride, frame.width * 3, frame.height, 0)

\* lib.rs process_frame: line_size = out_width * bytes_per_pixel
PackMem(frame, out_width, fmt) ==
    PackRows(PlaneData(frame), frame.stride, out_width * bytes_per_pixel(fmt),
             frame.height, 0)

NoConv == [width |-> 0, height |-> 0, stride |-> 0, bpp |-> 0]

(***************************************************************************)
(* State.                                                                  *)
(***************************************************************************)
VARIABLES
    pc,           \* position of the running call; "idle" between calls
    entry,        \* the entry point called
    srcKind,      \* what the caller handed over
    timeU,        \* time_sec, in 1/TimeScale seconds
    opts,         \* FrameExtractOptions of the call
    initState,    \* the state of each Once of the library initialization
    files,        \* temporary files that exist
    tempName,     \* <<name>> of the temporary file of this call, or <<>>
    res,          \* the Result of the extraction function
    out,          \* what the entry point returned to its caller
    videoIdx,     \* index of the selected video stream
    tb,           \* time base of the selected stream
    targetTs,     \* target_ts
    decoderBuilt, \* the decoder exists
    scaler,       \* the converter, NoScaler until built
    burst,        \* frames received since the last send_packet / send_eof
    eofSent,      \* send_eof has succeeded
    seekLog,      \* the seeks issued, in order
    readLog,      \* the stream index of every packet read, in order
    sentLog,      \* the positions in readLog of the packets handed to the decoder
    recvErr,      \* the receive_frame that ended the while loop failed hard
    readErr,      \* the packet loop ended on a read error, not at the end of the file
    recvLog,      \* the frames receive_frame yielded, in order
    accepted,     \* <<frame>> once a frame passed the acceptance test
    conv,         \* the converted frame handed to the packer
    threads,      \* the calls of extract_frame_from_memory made by threads at once
    tempData,     \* for every temporary file name, the thread whose bytes it holds
    backendError  \* <<e>>: the ffmpeg_next::Error e handed to the translation, or <<>>

\* packets read, and packets handed to the decoder
readCount == Len(readLog)
sendCount == Len(sentLog)

reqVars == <<entry, srcKind, timeU, opts>>
envVars == <<initState, files>>
ctxVars == <<videoIdx, tb, targetTs, decoderBuilt, scaler, burst, eofSent>>
histVars == <<seekLog, readLog, sentLog, recvErr, readErr, recvLog,
              accepted, conv>>
thrVars == <<threads, tempData>>
callVars == <<pc, reqVars, tempName, res, out, ctxVars, histVars, backendError>>
vars == <<pc, reqVars, envVars, tempName, res, out, ctxVars, histVars, thrVars,
          backendError>>

Threads == 1..MaxThreads
\* a thread that has not called yet
IdleThread == [pc |-> "idle", name |-> <<>>, wrote |-> FALSE, res |-> NoRes]

NoOut == [shape |-> "none", success |-> FALSE, error_code |-> 0,
          error_message |-> "", buffer |-> <<>>]
PanicOut == [shape |-> "panic", success |-> FALSE, error_code |-> 0,
             error_message |-> "", buffer |-> <<>>]

Init ==
    /\ pc = "idle"
    /\ entry = "extract_frame"
    /\ srcKind = "data"
    /\ timeU = 0
    /\ opts = DefaultOptions
    /\ initState = [o \in Onces |-> "uninit"]
    /\ files = {}
    /\ tempName = <<>>
    /\ res = NoRes
    /\ out = NoOut
    /\ videoIdx = 0
    /\ tb = <<1, 1>>
    /\ targetTs = 0
    /\ decoderBuilt = FALSE
    /\ scaler = NoScaler
    /\ burst = 0
    /\ eofSent = FALSE
    /\ seekLog = <<>>
    /\ readLog = <<>>
    /\ sentLog = <<>>
    /\ recvErr = FALSE
    /\ readErr = FALSE
    /\ recvLog = <<>>
    /\ accepted = <<>>
    /\ conv = NoConv
    /\ threads = [t \in Threads |-> IdleThread]
    /\ tempData = [m \in ClockTicks |-> 0]
    /\ backendError = <<>>

\* a call begins: the per-call state is fresh, the process state is kept
StartCall ==
    /\ pc = "idle"
    /\ \E e \in Entries, k \in SrcKinds("extract_frame"), t \in Times :
         /\ k \in SrcKinds(e)
         /\ entry' = e
         /\ srcKind' = k
         /\ timeU' = t
         /\ IF e = "get_video_frame_with_options"
              THEN \E r \in PipelineRequests :
                        opts' = ParseOptions(r[1], r[2], r[3], r[4])
              ELSE opts' = DefaultOptions
         /\ pc' = IF e = "extractVideoFrame" THEN "mem_init" ELSE "init"
    /\ UNCHANGED <<thrVars, backendError, envVars, tempName, res, out, ctxVars, histVars>>

\* a panic unwinds out of the entry point: the caller gets no value
Panics ==
    /\ pc' = "done"
    /\ out' = PanicOut

\* ffmpeg_init::initialize / lib.rs init: Once::call_once around
\* ffmpeg_next::init().unwrap(), each function with its own Once.  A failed init
\* panics and poisons the Once; a poisoned Once panics on every later call_once.
Initialize ==
    /\ pc \in {"mem_init", "init"}
    /\ \/ /\ initState[OnceOf(entry)] = "done"
          /\ pc' = IF pc = "mem_init" THEN "mem_write" ELSE "open"
          /\ UNCHANGED <<initState, out>>
       \/ /\ initState[OnceOf(entry)] = "uninit"
          /\ \/ /\ initState' = [initState EXCEPT ![OnceOf(entry)] = "done"]
                /\ pc' = IF pc = "mem_init" THEN "mem_write" ELSE "open"
                /\ UNCHANGED out
             \/ /\ initState' = [initState EXCEPT ![OnceOf(entry)] = "poisoned"]
                /\ Panics
       \/ /\ initState[OnceOf(entry)] = "poisoned"
          /\ Panics
          /\ UNCHANGED initState
    /\ UNCHANGED <<thrVars, backendError, reqVars, files, tempName, res, ctxVars, histVars>>

\* VideoResult::success / VideoResult::error (error.rs)
VideoResultSuccess(data) ==
    [shape |-> "VideoResult", success |-> TRUE, error_code |-> Unknown,
     error_message |-> "", buffer |-> data]

\* a faulty VideoResult::error: the code of the error is left out
VideoResultErrorUnknown(code, message) ==
    [shape |-> "VideoResult", success |-> FALSE, error_code |-> Unknown,
     error_message |-> message, buffer |-> <<>>]

VideoResultError(code, message) ==
    [shape |-> "VideoResult", success |-> FALSE, error_code |-> get_code(code),
     error_message |-> message, buffer |-> <<>>]

\* extractVideoFrame: the match on the Result of extract_frame_from_memory
extract_video_frame(r) ==
    IF r.tag = "ok" THEN VideoResultSuccess(r.buf) ELSE VideoResultError(r.kind, r.msg)

\* get_video_frame / get_video_frame_with_options: the buffer, or an empty
\* vector for any error
get_video_frame(r) ==
    [shape |-> "Vec", success |-> FALSE, error_code |-> 0, error_message |-> "",
     buffer |-> IF r.tag = "ok" THEN r.buf ELSE <<>>]

\* video_processor::extract_frame called directly: the Result itself
ResultOut(r) ==
    [shape |-> "Result", success |-> r.tag = "ok",
     error_code |-> IF r.tag = "ok" THEN 0 ELSE get_code(r.kind),
     error_message |-> r.msg, buffer |-> r.buf]

\* what the entry point e makes of the Result r of its extraction function
EntryReturn(e, r) ==
    CASE e = "extractVideoFrame" -> extract_video_frame(r)
      [] Pipeline(e) = "mem" -> get_video_frame(r)
      [] OTHER -> ResultOut(r)

\* the extraction function returns r: to the cleanup of
\* extract_frame_from_memory when it was called from there, and otherwise to
\* the entry point, which returns to its caller
Returns(r) ==
    /\ res' = r
    /\ IF entry = "extractVideoFrame"
         THEN pc' = "cleanup" /\ out' = out
         ELSE pc' = "done" /\ out' = EntryReturn(entry, r)

\* extract_frame_from_memory: the temporary path is named after the clock's
\* milliseconds; std::fs::write creates the file and then writes the bytes, so a
\* write that fails after the creation leaves the file behind.  The Err arm
\* returns InvalidInput without removing anything.
MemWrite ==
    /\ pc = "mem_write"
    /\ \E millis \in Millis :
         /\ tempName' = <<millis>>
         /\ \/ /\ files' = files \cup {millis}
               /\ pc' = "init"
               /\ UNCHANGED <<res, out>>
            \/ /\ files' \in {files, files \cup {millis}}
               /\ pc' = "done"
               /\ res' = VideoErrorNew("InvalidInput", <<"cannot write temporary file">>)
               /\ out' = EntryReturn(entry, VideoErrorNew("InvalidInput", <<"cannot write temporary file">>))
    /\ UNCHANGED <<thrVars, backendError, reqVars, initState, ctxVars, histVars>>

\* format::input(path) / io::Input::from_buffer + Input::from_io.  A path to no
\* file never opens; an empty source either fails to open or opens with no
\* stream; other bytes open or not (malformed).
OpenContainer ==
    /\ pc = "open"
    /\ \/ /\ srcKind # "missing"
          /\ pc' = "select"
          /\ UNCHANGED <<res, out>>
       \/ /\ Pipeline(entry) = "file"
          /\ Returns(VideoErrorNew("InvalidInput", <<"cannot open video file">>))
       \/ /\ Pipeline(entry) = "mem"
          /\ Returns(FromFFmpeg("FFmpeg error: open"))
    /\ UNCHANGED <<thrVars, backendError, reqVars, envVars, tempName, ctxVars, histVars>>

\* streams().best(Type::Video): None is NoVideoStream in video_processor.rs and
\* FrameExtractError::FrameNotFound in lib.rs
SelectStream ==
    /\ pc = "select"
    /\ \/ /\ srcKind = "data"
          /\ \E i \in StreamIds : videoIdx' = i
          /\ pc' = "decoder"
          /\ UNCHANGED <<res, out>>
       \/ /\ Pipeline(entry) = "file"
          /\ Returns(VideoErrorNew("NoVideoStream", <<>>))
          /\ UNCHANGED videoIdx
       \/ /\ Pipeline(entry) = "mem"
          /\ Returns(LibFrameNotFound)
          /\ UNCHANGED videoIdx
    /\ UNCHANGED <<thrVars, backendError, reqVars, envVars, tempName, tb, targetTs, decoderBuilt,
                   scaler, burst, eofSent, histVars>>

\* Context::from_parameters and decoder().video()
BuildDecoder ==
    /\ pc = "decoder"
    /\ \/ /\ decoderBuilt' = TRUE
          /\ pc' = "seek"
          /\ UNCHANGED <<res, out>>
       \/ /\ Pipeline(entry) = "file"
          /\ \E m \in {"cannot create decoder context", "cannot create decoder"} :
               Returns(VideoErrorNew("DecoderFailed", <<m>>))
          /\ UNCHANGED decoderBuilt
       \/ /\ Pipeline(entry) = "mem"
          /\ Returns(FromFFmpeg("FFmpeg error: decoder"))
          /\ UNCHANGED decoderBuilt
    /\ UNCHANGED <<thrVars, backendError, reqVars, envVars, tempName, videoIdx, tb, targetTs,
                   scaler, burst, eofSent, histVars>>

\* the seek request each pipeline issues: video_processor.rs seeks the container
\* within the range 0..target_ts, lib.rs seeks the stream with the BACKWARD flag
SeekRequest(pipeline, target_ts, stream) ==
    IF pipeline = "file"
      THEN [ts |-> target_ts, lo |-> 0, hi |-> target_ts, stream |-> 0 - 1, mode |-> "range"]
      ELSE [ts |-> target_ts, lo |-> 0, hi |-> 0, stream |-> stream, mode |-> "BACKWARD"]

\* target_ts from the stream's time base, then the seek
Seek ==
    /\ pc = "seek"
    /\ \E timeBase \in TimeBases :
         /\ tb' = timeBase
         /\ targetTs' = TargetTs(timeU, timeBase)
         /\ seekLog' = Append(seekLog, SeekRequest(Pipeline(entry), TargetTs(timeU, timeBase), videoIdx))
    /\ \/ /\ pc' = IF Pipeline(entry) = "file" THEN "scaler" ELSE "read"
          /\ UNCHANGED <<res, out>>
       \/ /\ Pipeline(entry) = "file"
          /\ Returns(VideoErrorNew("SeekFailed", <<"cannot seek to the target time">>))
       \/ /\ Pipeline(entry) = "mem"
          /\ Returns(FromFFmpeg("FFmpeg error: seek"))
    /\ UNCHANGED <<thrVars, backendError, reqVars, envVars, tempName, videoIdx, decoderBuilt,
                   scaler, burst, eofSent, readLog, sentLog, recvErr, readErr,
                   recvLog, accepted, conv>>

\* video_processor.rs builds the RGB24 scaler at the decoder's dimensions before
\* the decode loop
BuildScaler ==
    /\ pc = "scaler"
    /\ \/ /\ \E w \in FrameDims, h \in FrameDims :
               scaler' = ScalerGet(w, h, "RGB24", w, h, "BILINEAR")
          /\ pc' = "read"
          /\ UNCHANGED <<res, out>>
       \/ /\ Returns(VideoErrorNew("FFmpegError", <<"cannot create scaler">>))
          /\ UNCHANGED scaler
    /\ UNCHANGED <<thrVars, backendError, reqVars, envVars, tempName, videoIdx, tb, targetTs,
                   decoderBuilt, burst, eofSent, histVars>>

\* how the packet loop can end: video_processor.rs sees the packets() iterator
\* end and nothing else; lib.rs leaves the loop on any Err of read, a read
\* error (TRUE) as well as the end of the file (FALSE)
ReadEnds(pipeline) == IF pipeline = "mem" THEN BOOLEAN ELSE {FALSE}

\* a faulty packet loop: every packet goes to the decoder
ReadPacketNoFilter ==
    /\ pc = "read"
    /\ \/ /\ Len(readLog) < MaxPackets
          /\ \E s \in StreamIds : readLog' = Append(readLog, s)
          /\ pc' = "send"
          /\ UNCHANGED readErr
       \/ /\ pc' = "eof"
          /\ readErr' \in ReadEnds(Pipeline(entry))
          /\ UNCHANGED readLog
    /\ recvErr' = FALSE
    /\ UNCHANGED <<thrVars, backendError, reqVars, envVars, tempName, res, out, videoIdx, tb,
                   targetTs, decoderBuilt, scaler, burst, eofSent, seekLog,
                   sentLog, recvLog, accepted, conv>>

\* a faulty packet loop: a read error is passed on with `?` and ends the call
ReadPacketOrFail ==
    /\ pc = "read"
    /\ \/ /\ Len(readLog) < MaxPackets
          /\ \E s \in StreamIds :
               /\ readLog' = Append(readLog, s)
               /\ pc' = IF s = videoIdx THEN "send" ELSE "read"
          /\ UNCHANGED <<readErr, res, out>>
       \/ /\ pc' = "eof"
          /\ readErr' = FALSE
          /\ UNCHANGED <<readLog, res, out>>
       \/ /\ TRUE \in ReadEnds(Pipeline(entry))
          /\ readErr' = TRUE
          /\ Returns(FromFFmpeg("FFmpeg error: read"))
          /\ UNCHANGED readLog
    /\ recvErr' = FALSE
    /\ UNCHANGED <<thrVars, backendError, reqVars, envVars, tempName, videoIdx, tb, targetTs,
                   decoderBuilt, scaler, burst, eofSent, seekLog, sentLog,
                   recvLog, accepted, conv>>

\* the packet loop: ictx.packets() / input_ctx.read().  The loop ends when the
\* read yields no packet; a packet of another stream is skipped.  In lib.rs the
\* loop ends whenever read is not Ok: at the end of the file or on a read error.
ReadPacket ==
    /\ pc = "read"
    /\ \/ /\ Len(readLog) < MaxPackets
          /\ \E s \in StreamIds :
               /\ readLog' = Append(readLog, s)
               /\ pc' = IF s = videoIdx THEN "send" ELSE "read"
          /\ UNCHANGED readErr
       \/ /\ pc' = "eof"
          /\ readErr' \in ReadEnds(Pipeline(entry))
          /\ UNCHANGED readLog
    /\ recvErr' = FALSE
    /\ UNCHANGED <<thrVars, backendError, reqVars, envVars, tempName, res, out, videoIdx, tb, targetTs,
                   decoderBuilt, scaler, burst, eofSent, seekLog, sentLog,
                   recvLog, accepted, conv>>

\* a faulty send: a packet the decoder took is handed to it a second time
SendPacketResend ==
    /\ pc = "send"
    /\ \/ /\ sentLog' = Append(sentLog, Len(readLog))
          /\ burst' = 0
          /\ pc' = IF \E k \in 1..Len(sentLog) : sentLog[k] = Len(readLog)
                     THEN "recv" ELSE "send"
          /\ UNCHANGED <<res, out>>
       \/ /\ Pipeline(entry) = "file"
          /\ Returns(VideoErrorNew("DecoderFailed", <<"cannot send packet">>))
          /\ UNCHANGED <<sentLog, burst>>
       \/ /\ Pipeline(entry) = "mem"
          /\ Returns(FromFFmpeg("FFmpeg error: send_packet"))
          /\ UNCHANGED <<sentLog, burst>>
    /\ UNCHANGED <<thrVars, backendError, reqVars, envVars, tempName, videoIdx, tb, targetTs,
                   decoderBuilt, scaler, eofSent, seekLog, readLog, recvErr,
                   readErr, recvLog, accepted, conv>>

\* decoder.send_packet(&packet)
SendPacket ==
    /\ pc = "send"
    /\ \/ /\ sentLog' = Append(sentLog, Len(readLog))
          /\ burst' = 0
          /\ pc' = "recv"
          /\ UNCHANGED <<res, out>>
       \/ /\ Pipeline(entry) = "file"
          /\ Returns(VideoErrorNew("DecoderFailed", <<"cannot send packet">>))
          /\ UNCHANGED <<sentLog, burst>>
       \/ /\ Pipeline(entry) = "mem"
          /\ Returns(FromFFmpeg("FFmpeg error: send_packet"))
          /\ UNCHANGED <<sentLog, burst>>
    /\ UNCHANGED <<thrVars, backendError, reqVars, envVars, tempName, videoIdx, tb, targetTs,
                   decoderBuilt, scaler, eofSent, seekLog, readLog, recvErr,
                   readErr, recvLog, accepted, conv>>

\* decoder.send_eof()
SendEof ==
    /\ pc = "eof"
    /\ \/ /\ eofSent' = TRUE
          /\ burst' = 0
          /\ pc' = "drain"
          /\ UNCHANGED <<res, out>>
       \/ /\ Pipeline(entry) = "file"
          /\ Returns(VideoErrorNew("DecoderFailed", <<"cannot send EOF">>))
          /\ UNCHANGED <<eofSent, burst>>
       \/ /\ Pipeline(entry) = "mem"
          /\ Returns(FromFFmpeg("FFmpeg error: send_eof"))
          /\ UNCHANGED <<eofSent, burst>>
    /\ UNCHANGED <<thrVars, backendError, reqVars, envVars, tempName, videoIdx, tb, targetTs,
                   decoderBuilt, scaler, histVars>>

\* a faulty end of the drain: the decoder is blamed
NotFoundAsDecoder(pipeline) == VideoErrorNew("DecoderFailed", <<>>)

\* what both pipelines return when the drain ends without a match
NotFound(pipeline) ==
    IF pipeline = "file" THEN VideoErrorNew("FrameNotFound", <<>>) ELSE LibFrameNotFound

\* `while decoder.receive_frame(&mut decoded_frame).is_ok()`, in the packet loop
\* (pc "recv") and in the drain (pc "drain").  An Ok frame is tested for
\* acceptance; anything that is not Ok (no frame available, end of stream, or
\* any other failure) ends the while loop.  recvErr records that it was a
\* failure other than "no frame available" and "end of stream".
ReceiveFrame ==
    /\ pc \in {"recv", "drain"}
    /\ \/ /\ burst < MaxBurst
          /\ \E f \in Frames :
               /\ recvLog' = Append(recvLog, f)
               /\ IF Accepts(f, targetTs)
                    THEN accepted' = <<f>> /\ pc' = "convert"
                    ELSE accepted' = accepted /\ pc' = pc
          /\ burst' = burst + 1
          /\ UNCHANGED <<res, out, recvErr>>
       \/ /\ UNCHANGED recvLog
          /\ recvErr' \in BOOLEAN
          /\ IF pc = "recv"
               THEN pc' = "read" /\ UNCHANGED <<res, out>>
               ELSE Returns(NotFound(Pipeline(entry)))
          /\ UNCHANGED <<burst, accepted>>
    /\ UNCHANGED <<thrVars, backendError, reqVars, envVars, tempName, videoIdx, tb, targetTs,
                   decoderBuilt, scaler, eofSent, seekLog, readLog,
                   sentLog, readErr, conv>>

\* process_frame of video_processor.rs: scaler.run, then the row copy
ProcessFrameFileOver(padSet) ==
    /\ pc = "convert"
    /\ Pipeline(entry) = "file"
    /\ \/ \E pad \in padSet :
            /\ conv' = ScalerRun(scaler, pad)
            /\ Returns(Ok(PackFile(ScalerRun(scaler, pad))))
       \/ /\ Returns(VideoErrorNew("FFmpegError", <<"color conversion failed">>))
          /\ UNCHANGED conv
    /\ UNCHANGED <<thrVars, backendError, reqVars, envVars, tempName, ctxVars, seekLog, readLog,
                   sentLog, recvErr, readErr, recvLog, accepted>>

\* scaler.get_or_insert_with(|| Context::get(...).unwrap()) of lib.rs
GetOrInsertScaler(sc, o, width, height, out_width, out_height) ==
    IF sc.built THEN sc
    ELSE ScalerGet(width, height, o.pixel_format, out_width, out_height,
                   to_ffmpeg_scaling_flag(o.scaling_method))

\* process_frame of lib.rs: the output size from the frame's size and the
\* options, the scaler built on first use (its failure is unwrapped: a panic),
\* scaler.run, then the row copy
ProcessFrameMemOver(dimSet, padSet) ==
    /\ pc = "convert"
    /\ Pipeline(entry) = "mem"
    /\ \E width \in dimSet, height \in dimSet :
         LET d == calculate_dimensions(opts, width, height)
             sc == GetOrInsertScaler(scaler, opts, width, height, d[1], d[2])
         IN \/ /\ ~scaler.built
               /\ Panics
               /\ UNCHANGED <<scaler, conv, res>>
            \/ /\ scaler' = sc
               /\ Returns(FromFFmpeg("FFmpeg error: scaler.run"))
               /\ UNCHANGED conv
            \/ \E pad \in padSet :
                 /\ scaler' = sc
                 /\ conv' = ScalerRun(sc, pad)
                 /\ Returns(Ok(PackMem(ScalerRun(sc, pad), d[1], opts.pixel_format)))
    /\ UNCHANGED <<thrVars, backendError, reqVars, envVars, tempName, videoIdx, tb, targetTs,
                   decoderBuilt, burst, eofSent, seekLog, readLog,
                   sentLog, recvErr, readErr, recvLog, accepted>>

ProcessFrameFile == ProcessFrameFileOver(FramePads)

ProcessFrameMem == ProcessFrameMemOver(FrameDims, FramePads)

\* extract_frame_from_memory after extract_frame returned: remove the temporary
\* file and pass the result on to extractVideoFrame, which returns to its caller
Cleanup ==
    /\ pc = "cleanup"
    /\ files' = files \ {tempName[1]}
    /\ out' = EntryReturn(entry, res)
    /\ pc' = "done"
    /\ UNCHANGED <<thrVars, backendError, reqVars, initState, tempName, res, ctxVars, histVars>>

\* the call is over: its frame is gone, the process state stays
Reset ==
    /\ pc = "done"
    /\ pc' = "idle"
    /\ entry' = "extract_frame"
    /\ srcKind' = "data"
    /\ timeU' = 0
    /\ opts' = DefaultOptions
    /\ tempName' = <<>>
    /\ res' = NoRes
    /\ out' = NoOut
    /\ videoIdx' = 0
    /\ tb' = <<1, 1>>
    /\ targetTs' = 0
    /\ decoderBuilt' = FALSE
    /\ scaler' = NoScaler
    /\ burst' = 0
    /\ eofSent' = FALSE
    /\ seekLog' = <<>>
    /\ readLog' = <<>>
    /\ sentLog' = <<>>
    /\ recvErr' = FALSE
    /\ readErr' = FALSE
    /\ recvLog' = <<>>
    /\ accepted' = <<>>
    /\ conv' = NoConv
    /\ UNCHANGED <<envVars, thrVars, backendError>>

Next ==
    \/ Reset \/ StartCall \/ Initialize \/ MemWrite \/ OpenContainer \/ SelectStream
    \/ BuildDecoder \/ Seek \/ BuildScaler \/ ReadPacket \/ SendPacket
    \/ SendEof \/ ReceiveFrame \/ ProcessFrameFile \/ ProcessFrameMem
    \/ Cleanup

Spec == Init /\ [][Next]_vars

(***************************************************************************)
(* The conversion runs: process_frame of both pipelines applied to an      *)
(* accepted frame, for every format, requested size, frame size and row    *)
(* padding within MaxDim and MaxPad.  The runs start where the decode loop *)
(* has just accepted the first frame of the first packet.                  *)
(***************************************************************************)
InitConvert ==
    /\ pc = "convert"
    /\ entry \in Entries
    /\ srcKind = "data"
    /\ timeU = 0
    /\ IF entry = "get_video_frame_with_options"
         THEN opts \in {ParseOptions(format, scaling, width, height) :
                          format \in RawFormats, scaling \in RawScalings,
                          width \in 0..MaxDim, height \in 0..MaxDim}
         ELSE opts = DefaultOptions
    /\ initState = [o \in Onces |-> IF o = OnceOf(entry) THEN "done" ELSE "uninit"]
    /\ files = IF entry = "extractVideoFrame" THEN {0} ELSE {}
    /\ tempName = IF entry = "extractVideoFrame" THEN <<0>> ELSE <<>>
    /\ res = NoRes
    /\ out = NoOut
    /\ videoIdx = 0
    /\ tb = <<1, 1>>
    /\ targetTs = 0
    /\ decoderBuilt = TRUE
    /\ IF Pipeline(entry) = "file"
         THEN scaler \in {ScalerGet(w, h, "RGB24", w, h, "BILINEAR") : w \in Dims, h \in Dims}
         ELSE scaler = NoScaler
    /\ burst = 1
    /\ eofSent = FALSE
    /\ seekLog = <<SeekRequest(Pipeline(entry), 0, 0)>>
    /\ readLog = <<0>>
    /\ sentLog = <<1>>
    /\ recvErr = FALSE
    /\ readErr = FALSE
    /\ recvLog \in {<<f>> : f \in Frames}
    /\ accepted = recvLog
    /\ conv = NoConv
    /\ threads = [t \in Threads |-> IdleThread]
    /\ tempData = [m \in ClockTicks |-> 0]
    /\ backendError = <<>>

NextConvert ==
    \/ ProcessFrameFileOver(Pads) \/ ProcessFrameMemOver(Dims, Pads) \/ Cleanup

SpecConvert == InitConvert /\ [][NextConvert]_vars

(***************************************************************************)
(* The threaded runs: MaxThreads threads of one process call               *)
(* extract_frame_from_memory, each once, with the same bytes and the same  *)
(* time_sec, and their steps interleave.  The toolkit is taken to be       *)
(* deterministic here: extract_frame on a file that exists returns the     *)
(* frame of the bytes in the file, written Ok(<<w>>) for the bytes thread  *)
(* w wrote, and fails with InvalidInput on a file that does not exist.     *)
(***************************************************************************)
\* the thread calls extract_frame_from_memory
TCall(t) ==
    /\ threads[t].pc = "idle"
    /\ threads' = [threads EXCEPT ![t].pc = "mem_init"]
    /\ UNCHANGED <<callVars, envVars, tempData>>

\* ffmpeg_init::initialize under its Once: call_once runs the body in one
\* thread and blocks the others until it is over
TInitialize(t) ==
    /\ threads[t].pc = "mem_init"
    /\ \/ /\ initState["initialize"] = "done"
          /\ threads' = [threads EXCEPT ![t].pc = "mem_path"]
          /\ UNCHANGED initState
       \/ /\ initState["initialize"] = "uninit"
          /\ \/ /\ initState' = [initState EXCEPT !["initialize"] = "done"]
                /\ threads' = [threads EXCEPT ![t].pc = "mem_path"]
             \/ /\ initState' = [initState EXCEPT !["initialize"] = "poisoned"]
                /\ threads' = [threads EXCEPT ![t].pc = "done", ![t].res.tag = "panic"]
       \/ /\ initState["initialize"] = "poisoned"
          /\ threads' = [threads EXCEPT ![t].pc = "done", ![t].res.tag = "panic"]
          /\ UNCHANGED initState
    /\ UNCHANGED <<callVars, files, tempData>>

\* the temporary path: named after the clock's milliseconds, which do not go
\* back between two readings
TTempPath(t) ==
    /\ threads[t].pc = "mem_path"
    /\ \E millis \in ClockTicks :
         /\ \A u \in Threads : threads[u].name # <<>> => threads[u].name[1] <= millis
         /\ threads' = [threads EXCEPT ![t].pc = "mem_write", ![t].name = <<millis>>]
    /\ UNCHANGED <<callVars, envVars, tempData>>

\* std::fs::write(&temp_file_path, input_data): creates or truncates the file
\* and writes the bytes; a failure may leave the file behind
TWrite(t) ==
    /\ threads[t].pc = "mem_write"
    /\ LET millis == threads[t].name[1]
       IN \/ /\ files' = files \cup {millis}
             /\ tempData' = [tempData EXCEPT ![millis] = t]
             /\ threads' = [threads EXCEPT ![t].pc = "extract", ![t].wrote = TRUE]
          \/ /\ \/ files' = files /\ tempData' = tempData
                \/ files' = files \cup {millis} /\ tempData' = [tempData EXCEPT ![millis] = t]
             /\ threads' = [threads EXCEPT
                   ![t].pc = "done",
                   ![t].res = VideoErrorNew("InvalidInput", <<"cannot write temporary file">>)]
    /\ UNCHANGED <<callVars, initState>>

\* extract_frame(&temp_file_path, time_sec): opens the file the path names now
TExtract(t) ==
    /\ threads[t].pc = "extract"
    /\ LET millis == threads[t].name[1]
       IN threads' = [threads EXCEPT
              ![t].pc = "cleanup",
              ![t].res = IF millis \in files
                           THEN Ok(<<tempData[millis]>>)
                           ELSE VideoErrorNew("InvalidInput", <<"cannot open video file">>)]
    /\ UNCHANGED <<callVars, envVars, tempData>>

\* std::fs::remove_file(&temp_file_path), its error ignored; the result is returned
TCleanup(t) ==
    /\ threads[t].pc = "cleanup"
    /\ files' = files \ {threads[t].name[1]}
    /\ threads' = [threads EXCEPT ![t].pc = "done"]
    /\ UNCHANGED <<callVars, initState, tempData>>

NextThreads ==
    \E t \in Threads :
        \/ TCall(t) \/ TInitialize(t) \/ TTempPath(t) \/ TWrite(t)
        \/ TExtract(t) \/ TCleanup(t)

SpecThreads == Init /\ [][NextThreads]_vars

(***************************************************************************)
(* One call, run to its end.  A call is synchronous, single-threaded code: *)
(* once entered it keeps taking its next step, and every step is one call  *)
(* into the toolkit or the file system that returns.                       *)
(***************************************************************************)
CallStep ==
    \/ Initialize \/ MemWrite \/ OpenContainer \/ SelectStream
    \/ BuildDecoder \/ Seek \/ BuildScaler \/ ReadPacket \/ SendPacket
    \/ SendEof \/ ReceiveFrame \/ ProcessFrameFile \/ ProcessFrameMem
    \/ Cleanup

NextLive == StartCall \/ CallStep

SpecLive == Init /\ [][NextLive]_vars /\ WF_vars(CallStep)

(***************************************************************************)
(* The backend-error translation on its own: any ffmpeg_next::Error is     *)
(* handed to From<ffmpeg_next::Error> for VideoError, and the VideoError   *)
(* it yields is kept in res.                                               *)
(***************************************************************************)
Translate ==
    /\ pc = "idle"
    /\ \E error \in BackendErrors :
         /\ backendError' = <<error>>
         /\ res' = from(error)
    /\ UNCHANGED <<pc, reqVars, envVars, tempName, out, ctxVars, histVars, thrVars>>

NextTranslate == Translate

SpecTranslate == Init /\ [][NextTranslate]_vars

(***************************************************************************)
(* target_ts on its own: either extract_frame computes it from time_sec    *)
(* and the time base of the stream and hands it to the seek.               *)
(***************************************************************************)
ComputeTargetTs ==
    /\ pc = "idle"
    /\ \E e \in Entries, t \in TickTimes, timeBase \in TickTimeBases :
         /\ entry' = e
         /\ timeU' = t
         /\ tb' = timeBase
         /\ targetTs' = TargetTs(t, timeBase)
         /\ seekLog' = <<SeekRequest(Pipeline(e), TargetTs(t, timeBase), videoIdx)>>
    /\ UNCHANGED <<pc, srcKind, opts, envVars, tempName, res, out, videoIdx,
                   decoderBuilt, scaler, burst, eofSent, readLog, sentLog, recvErr,
                   readErr, recvLog, accepted, conv, thrVars, backendError>>

NextTargetTs == ComputeTargetTs

SpecTargetTs == Init /\ [][NextTargetTs]_vars

(***************************************************************************)
(* Properties.                                                             *)
(***************************************************************************)
\* the extraction function has returned
Returned == res.tag # "none"

\* every frame the decoder yielded has a timestamp, and it is before target_ts
AllBeforeTarget ==
    \A i \in 1..Len(recvLog) : recvLog[i].hasPts /\ recvLog[i].pts < targetTs

\* the bytes per pixel of the format the call asked for
RequestedBpp ==
    IF Pipeline(entry) = "mem" THEN bytes_per_pixel(opts.pixel_format) ELSE 3

\* C1: a successful extraction returns exactly width * height * bytes_per_pixel
\* bytes, for every stride >= width * bytes_per_pixel: output byte j is the byte
\* at column (j-1) % line of row (j-1) \div line of the plane, rows being stride
\* apart, so no padding byte is copied; width and height are the requested
\* ones when the call requested a size.
PackedBufferExact ==
    res.tag = "ok" =>
        LET line == conv.width * RequestedBpp
        IN /\ conv.stride >= line
           /\ (Pipeline(entry) = "mem" /\ opts.width # 0) => conv.width = opts.width
           /\ (Pipeline(entry) = "mem" /\ opts.height # 0) => conv.height = opts.height
           /\ Len(res.buf) = conv.width * conv.height * RequestedBpp
           /\ \A j \in 1..Len(res.buf) :
                 res.buf[j] = ((j - 1) \div line) * conv.stride + ((j - 1) % line) + 1
           /\ (pc = "done") => out.buffer = res.buf

\* C1's case: four bytes per pixel, a requested width, two rows, padded rows
PackedBufferExactReached ==
    /\ res.tag = "ok"
    /\ Pipeline(entry) = "mem"
    /\ opts.pixel_format = "RGBA"
    /\ opts.width # 0
    /\ conv.height >= 2
    /\ conv.stride > conv.width * conv.bpp
    /\ pc = "done"

\* the acceptance test as the specification words it
Acceptable(frame) == (~frame.hasPts) \/ frame.pts >= targetTs

\* C2: the frame converted and returned is the first acceptable frame in the
\* order the decoder yields them (timestamp undefined or >= target_ts): every
\* frame yielded before it had a defined timestamp < target_ts, a success
\* has an accepted frame, and after the acceptance no packet is read or sent and
\* no frame is received.
FirstAcceptableFrame ==
    /\ [](/\ \A i \in 1..Len(recvLog) :
               Acceptable(recvLog[i]) => (i = Len(recvLog) /\ accepted = <<recvLog[i]>>)
          /\ accepted # <<>> =>
               (recvLog # <<>> /\ accepted[1] = recvLog[Len(recvLog)] /\ Acceptable(accepted[1]))
          /\ res.tag = "ok" => accepted # <<>>)
    /\ [][(accepted # <<>> /\ pc' # "idle") =>
             UNCHANGED <<readCount, sendCount, recvLog, accepted>>]_vars

\* C2's case: a frame before the target was discarded, then one was returned
FirstAcceptableFrameReached ==
    /\ res.tag = "ok"
    /\ Len(recvLog) >= 2
    /\ accepted[1].hasPts
    /\ pc = "done"

\* C3 as stated, for video_processor::extract_frame: when target_ts is greater
\* than the timestamp of every frame of the stream, the extraction ends with
\* FrameNotFound.
BeyondDurationFrameNotFound ==
    (Returned /\ Pipeline(entry) = "file" /\ seekLog # <<>> /\ AllBeforeTarget) =>
        (res.tag = "err" /\ res.kind = "FrameNotFound")

\* C3, amended: in both pipelines, when target_ts is greater than the timestamp
\* of every frame the decoder yields (each of them defined), no frame buffer is
\* returned; the call ends with an error, and the error is FrameNotFound
\* exactly when the seek, every send_packet and send_eof succeeded, so that the
\* drain ran to its end.
BeyondDurationNoFrame ==
    (Returned /\ seekLog # <<>> /\ AllBeforeTarget) =>
        /\ res.tag = "err"
        /\ res.buf = <<>>
        /\ (pc = "done") => out.buffer = <<>>
        /\ (res.kind = "FrameNotFound") <=> eofSent

\* C3's case: frames were yielded, all before the target, and the drain ended
BeyondDurationReached ==
    /\ res.tag = "err"
    /\ res.kind = "FrameNotFound"
    /\ Len(recvLog) >= 2
    /\ AllBeforeTarget
    /\ eofSent
    /\ pc = "done"

\* C4: every exported entry point reports a failure of its extraction as a
\* structured result with success = false, an error code and a message, never
\* as a bare pixel buffer.
StructuredFailure ==
    (pc = "done" /\ entry # "extract_frame" /\ res.tag = "err") =>
        /\ out.shape = "VideoResult"
        /\ ~out.success
        /\ out.error_code = get_code(res.kind)
        /\ out.error_message # ""

\* C5: a path to no file, or an empty buffer, ends the call with InvalidInput or
\* NoVideoStream, with no decoder built, no seek issued and no packet read.
MissingOrEmptyInput ==
    (Returned /\ srcKind \in {"missing", "empty"}) =>
        /\ res.tag = "err"
        /\ res.kind \in {"InvalidInput", "NoVideoStream"}
        /\ out.shape # "panic"
        /\ ~decoderBuilt
        /\ seekLog = <<>>
        /\ readCount = 0

\* C6: video_processor::extract_frame called on a video with a negative time_sec
\* returns an error, never a frame.
NegativeTimeRejected ==
    (Returned /\ entry = "extract_frame" /\ srcKind = "data" /\ timeU < 0) =>
        res.tag = "err"

\* C7: when stream selection finds no video stream, the call fails with
\* NoVideoStream in both pipelines, with no decoder built, no seek issued and no
\* packet read.
NoVideoStreamKind ==
    [][(pc = "select" /\ res'.tag = "err") =>
          /\ res'.kind = "NoVideoStream"
          /\ ~decoderBuilt'
          /\ seekLog' = <<>>
          /\ readCount' = 0]_vars

\* C8: a call issues one seek, to target_ts, after the decoder is built and
\* before any packet is read; when the seek errors the call ends with
\* SeekFailed and no packet is read or sent.
OneSeekOrSeekFailed ==
    /\ [](/\ Len(seekLog) <= 1
          /\ seekLog # <<>> => (decoderBuilt /\ seekLog[1].ts = targetTs)
          /\ readCount > 0 => Len(seekLog) = 1)
    /\ [][(pc = "seek" /\ res'.tag = "err") =>
             /\ res'.kind = "SeekFailed"
             /\ readCount' = 0
             /\ sendCount' = 0]_vars

\* C9: when send_packet fails the call ends at once with DecoderFailed: nothing
\* is read, received, converted or drained afterwards.
SendFailureIsDecoderFailed ==
    [][(pc = "send" /\ res'.tag = "err") =>
          /\ res'.kind = "DecoderFailed"
          /\ pc' \in {"done", "cleanup"}
          /\ UNCHANGED <<readCount, sendCount, recvLog, accepted, conv, eofSent>>]_vars

\* C10: when a call of extractVideoFrame has ended, the temporary file it named
\* does not exist.
TempFileRemoved ==
    (pc = "done" /\ entry = "extractVideoFrame" /\ tempName # <<>>) =>
        tempName[1] \notin files

\* the thread's call has named its temporary file and not yet removed it
InFlight(t) == threads[t].pc \in {"mem_write", "extract", "cleanup"}

\* C11: overlapping calls of extract_frame_from_memory have distinct temporary
\* files: two calls in flight never name the same file, the file of a call
\* that wrote it exists and holds that call's bytes when the call opens it,
\* and a call never gets a frame of bytes another call wrote.
TempFilesExclusive ==
    /\ \A t, u \in Threads :
         (t # u /\ InFlight(t) /\ InFlight(u)) => threads[t].name # threads[u].name
    /\ \A t \in Threads :
         threads[t].pc = "extract" =>
             (threads[t].name[1] \in files /\ tempData[threads[t].name[1]] = t)
    /\ \A t \in Threads :
         threads[t].res.tag = "ok" => threads[t].res.buf = <<t>>

\* the number of times ffmpeg_next::init() has run in the process: once for
\* every Once that has left its initial state
InitRuns == Cardinality({o \in Onces : initState[o] # "uninit"})

\* C12: whatever calls are made, the initialization body runs at most once in
\* the process.
InitBodyRunsOnce == InitRuns <= 1

\* C13: a call that meets a failed initialization ends with an error result of
\* kind InitFailed and does not abort.
InitFailureIsInitFailed ==
    (pc = "done" /\ initState[OnceOf(entry)] = "poisoned") =>
        /\ out.shape # "panic"
        /\ res.tag = "err"
        /\ res.kind = "InitFailed"

\* C14: calls with identical source bytes and time_sec end with the same
\* outcome: any two finished calls whose temporary file was written have both
\* succeeded or both failed with the same error kind.
SameInputsSameOutcome ==
    \A t, u \in Threads :
        (/\ threads[t].pc = "done" /\ threads[t].wrote
         /\ threads[u].pc = "done" /\ threads[u].wrote) =>
            /\ threads[t].res.tag = threads[u].res.tag
            /\ threads[t].res.kind = threads[u].res.kind

ScalingMethods == {"Bilinear", "Bicubic", "AreaBased", "Fast"}

\* C15: the same call made with any other scaling_method builds a converter of
\* the same destination format, width and height, and on success gives an
\* output of the same width, height and buffer length; the converter differs
\* in its scaling flag only.
ScalingOnlyResamples ==
    (Pipeline(entry) = "mem" /\ scaler.built) =>
        \A m \in ScalingMethods :
            LET o2 == [opts EXCEPT !.scaling_method = m]
                d == calculate_dimensions(o2, scaler.srcW, scaler.srcH)
                sc2 == GetOrInsertScaler(NoScaler, o2, scaler.srcW, scaler.srcH, d[1], d[2])
            IN /\ [sc2 EXCEPT !.flag = scaler.flag] = scaler
               /\ (sc2.flag = scaler.flag) <=> (m = opts.scaling_method)
               /\ res.tag = "ok" =>
                    /\ conv.width = d[1]
                    /\ conv.height = d[2]
                    /\ Len(res.buf) = d[1] * d[2] * bytes_per_pixel(o2.pixel_format)

\* C15's case: a bicubic call that resizes the frame has succeeded
ScalingOnlyResamplesReached ==
    /\ Pipeline(entry) = "mem"
    /\ res.tag = "ok"
    /\ opts.scaling_method = "Bicubic"
    /\ opts.width # 0
    /\ opts.width # scaler.srcW
    /\ pc = "done"

\* C16: the packets handed to the decoder are exactly the packets of the
\* selected stream, in read order (the last one read may still be on its way
\* or have been refused); a packet of another stream is passed over without a
\* send or a receive, and the loop goes on to the next read.
OnlyVideoPacketsSent ==
    /\ [](/\ \A k \in 1..Len(sentLog) :
               sentLog[k] \in 1..Len(readLog) /\ readLog[sentLog[k]] = videoIdx
          /\ \A k \in 1..(Len(sentLog) - 1) : sentLog[k] < sentLog[k + 1]
          /\ \A i \in 1..Len(readLog) :
               readLog[i] = videoIdx =>
                   \/ \E k \in 1..Len(sentLog) : sentLog[k] = i
                   \/ i = Len(readLog) /\ (pc = "send" \/ res.tag = "err"))
    /\ [][(pc = "read" /\ readLog' # readLog /\ readLog'[Len(readLog')] # videoIdx) =>
             (pc' = "read" /\ UNCHANGED <<sentLog, recvLog, burst>>)]_vars

\* C16's case: a packet of another stream was passed over, the next one was sent
OnlyVideoPacketsSentReached ==
    /\ Len(readLog) = 2
    /\ readLog[1] # videoIdx
    /\ sentLog = <<2>>

\* C17: a receive_frame failure other than "no frame available" and "end of
\* stream" ends the call with an error that is not FrameNotFound; no packet is
\* read and nothing is drained after it.
HardReceiveFailureEndsCall ==
    [][(pc \in {"recv", "drain"} /\ recvErr') =>
          /\ pc' \in {"done", "cleanup"}
          /\ res'.tag = "err"
          /\ res'.kind # "FrameNotFound"]_vars

\* C18: FrameNotFound is returned only after the seek, with end-of-stream
\* signalled to the decoder and every yielded frame having a defined timestamp
\* before target_ts.
FrameNotFoundOnlyAfterDrain ==
    (res.tag = "err" /\ res.kind = "FrameNotFound") =>
        /\ seekLog # <<>>
        /\ eofSent
        /\ AllBeforeTarget

\* C19: the converter exists only once a frame has been accepted, and a call
\* in which no frame was accepted never tries to build one.
ConverterBuiltOnAcceptance ==
    accepted = <<>> => (~scaler.built /\ pc # "scaler")

\* C20: a failure to construct the converter or to run it ends the call with
\* an error result of kind FFmpegError, without a panic and without a buffer.
ConverterFailureIsFFmpegError ==
    [][(pc \in {"scaler", "convert"} /\ pc' \in {"done", "cleanup"} /\ res'.tag # "ok") =>
          /\ res'.tag = "err"
          /\ res'.kind = "FFmpegError"
          /\ res'.buf = <<>>
          /\ out'.shape # "panic"]_vars

\* C22: the backend-error translation gives every backend error exactly one
\* kind of the taxonomy, whose code is in 0..7: StreamNotFound becomes
\* NoVideoStream, DecoderNotFound becomes DecoderFailed, InvalidData becomes
\* InvalidInput, and every other backend error becomes FFmpegError (code 7)
\* with a message that contains the backend's text; the result is never a
\* success and never absent.
TranslationClassifies ==
    backendError # <<>> =>
        LET error == backendError[1]
            named == {"StreamNotFound", "DecoderNotFound", "InvalidData"}
        IN  /\ res.tag = "err"
            /\ Cardinality({k \in VideoErrorCode : res.kind = k}) = 1
            /\ get_code(res.kind) \in 0..7
            /\ error.variant = "StreamNotFound" => res.kind = "NoVideoStream"
            /\ error.variant = "DecoderNotFound" => res.kind = "DecoderFailed"
            /\ error.variant = "InvalidData" => res.kind = "InvalidInput"
            /\ error.variant \notin named =>
                    /\ res.kind = "FFmpegError"
                    /\ get_code(res.kind) = 7
                    /\ \E i \in 1..Len(res.msg) : res.msg[i] = Display(error)

TranslationClassifiesReached ==
    /\ backendError # <<>>
    /\ backendError[1].variant = "Other"
    /\ res.kind = "FFmpegError"
    /\ res.msg[2] = Display(backendError[1])

\* the position of a step in the straight-line order of extract_frame; the
\* packet loop (read, send, receive) is one position
Stage(p) ==
    CASE p = "idle" -> 0
      [] p = "mem_init" -> 1
      [] p = "mem_write" -> 2
      [] p = "init" -> 3
      [] p = "open" -> 4
      [] p = "select" -> 5
      [] p = "decoder" -> 6
      [] p = "seek" -> 7
      [] p = "scaler" -> 8
      [] p \in {"read", "send", "recv"} -> 9
      [] p = "eof" -> 10
      [] p = "drain" -> 11
      [] p = "convert" -> 12
      [] p = "cleanup" -> 13
      [] p = "done" -> 14

IsTruncated(q, n, d) ==
    IF n >= 0 THEN q * d <= n /\ n < (q + 1) * d
              ELSE (q - 1) * d < n /\ n <= q * d

VideoResultWellFormed ==
    (entry = "extractVideoFrame" /\ out.shape = "VideoResult") =>
        /\ out.success =>
              /\ res.tag = "ok"
              /\ out.error_code = 0
              /\ out.error_message = ""
              /\ out.buffer = res.buf
        /\ ~out.success =>
              /\ res.tag = "err"
              /\ out.buffer = <<>>
              /\ out.error_code = get_code(res.kind)
              /\ out.error_code \in 2..7
        /\ out.error_code = 0 <=> out.success

\* C26's case: extractVideoFrame returned the VideoResult of a failed seek
VideoResultWellFormedReached ==
    /\ entry = "extractVideoFrame"
    /\ pc = "done"
    /\ out.shape = "VideoResult"
    /\ ~out.success
    /\ res.kind = "SeekFailed"
    /\ out.error_code = SeekFailed

\* C25 as stated: after a failed packet read the call ends with a frame or
\* with FrameNotFound.
ReadFailureOutcomeFromFrames ==
    (Returned /\ readErr) =>
        (res.tag = "ok" \/ (res.tag = "err" /\ res.kind = "FrameNotFound"))

\* C25, amended: a packet read that yields no packet, at the end of the file
\* or on a read error, ends the packet loop without a result and takes the
\* call to send_eof.  A call whose loop ended on a read error ends with a
\* frame, with FrameNotFound after the drain, with the error of a failed
\* send_eof, or with the error or the panic of a failed conversion of an
\* accepted frame; it is never ended by the read error itself.
ReadFailureEndsLoop ==
    /\ [][(pc = "read" /\ pc' # "read" /\ readLog' = readLog) =>
             /\ pc' = "eof"
             /\ res' = res
             /\ out' = out]_vars
    /\ []((pc = "done" /\ readErr) =>
             \/ res.tag = "ok" /\ eofSent /\ accepted # <<>>
             \/ res.tag = "err" /\ res.kind = "FrameNotFound" /\ eofSent
             \/ res.tag = "err" /\ res.kind \in {"FFmpegError", "DecoderFailed"} /\ ~eofSent
             \/ res.tag = "err" /\ res.kind = "FFmpegError" /\ accepted # <<>>
             \/ res.tag = "none" /\ out.shape = "panic" /\ accepted # <<>>)

\* C25's case: a read error in mid-stream ended the loop, and the drain gave
\* the frame the call returned
ReadFailureEndsLoopReached ==
    /\ pc = "done"
    /\ readErr
    /\ readLog # <<>>
    /\ eofSent
    /\ res.tag = "ok"

\* every call that is entered ends, and takes no step after its end
CallEnds ==
    /\ (pc # "idle") ~> (pc = "done")
    /\ [][pc = "done" => pc' = "idle"]_vars

\* C24: every call that is entered ends and takes no step after its end; a
\* call that got as far as the seek ends with exactly one of a buffer and an
\* error kind, never with a panic.
CallEndsWithOneOutcome ==
    /\ CallEnds
    /\ []((pc = "done" /\ seekLog # <<>>) =>
             /\ out.shape # "panic"
             /\ res.tag \in {"ok", "err"}
             /\ res.tag = "err" => res.kind \in VideoErrorCode)

====
